---- MODULE Spec2Model ----
(***************************************************************************)
(* PolicyPal: the query server action (handleQuery), the Firestore query   *)
(* history (addQueryToHistory / getUserQueryHistory) and the dashboard     *)
(* form that submits to them.                                              *)
(***************************************************************************)
EXTENDS Integers, Sequences, FiniteSets, TLC

(***************************************************************************)
(* Bounds and sample values                                                *)
(***************************************************************************)
\* number of handleQuery submissions explored in one behaviour
MaxInvocations == 2
\* longest retrieved-context list the backend returns
MaxCtx == 2
\* largest stored collection drawn by SpecStored
MaxStored == 3
\* largest stored collection drawn by SpecDetail
MaxDetail == 2
\* number of upload and delete clicks explored in one behaviour of the admin panel
MaxClicks == 2
\* number of documents ingested in one behaviour of the embedding index
MaxDocs == 2
\* longest document text handed to the chunker
MaxText == 5
\* largest maxLen handed to the chunker
MaxChunkLen == 3

Users == {"u1", "u2"}
Questions == {"q1"}
Answers == {"a1"}
\* readings of Date.now() in milliseconds
ClockReadings == {999, 1000}
\* document ids Firestore can generate (addDoc picks an unused one)
DocIds == 1..MaxInvocations

(***************************************************************************)
(* JavaScript values.  null/undefined is the empty tuple, a present value  *)
(* x is <<x>>.  A JSON field of the backend's response is a tagged value.  *)
(***************************************************************************)
Null == <<>>
Some(x) == <<x>>

Undef == [t |-> "undefined", s |-> "", a |-> <<>>]
Str(x) == [t |-> "string", s |-> x, a |-> <<>>]
Arr(x) == [t |-> "array", s |-> "", a |-> x]

\* JavaScript truthiness: undefined and '' are falsy, every array is truthy
Truthy(v) == (v.t = "string" /\ v.s # "") \/ v.t = "array"
\* Array.isArray
IsArray(v) == v.t = "array"
\* `v?.length || 0` for a list-or-missing field
LengthOrZero(v) == CASE v.t = "array" -> Len(v.a)
                     [] v.t = "undefined" -> 0
\* `v || []`
OrEmptyArray(v) == IF Truthy(v) THEN v ELSE Arr(<<>>)
\* `v || fallback` for strings
OrString(s, fallback) == IF s # "" THEN s ELSE fallback

(***************************************************************************)
(* firebase Timestamp: seconds and nanoseconds.  Timestamp.now() is        *)
(* Timestamp.fromMillis(Date.now()).                                       *)
(***************************************************************************)
FromMillis(ms) == [seconds |-> ms \div 1000, nanoseconds |-> (ms % 1000) * 1000000]
ToMillis(ts) == ts.seconds * 1000 + (ts.nanoseconds \div 1000000)

(***************************************************************************)
(* The backend's JSON answer to POST /api/query                            *)
(***************************************************************************)
Chunks(n) == [k \in 1..n |-> "chunk"]
ContextValues == {Undef} \cup {Arr(Chunks(n)) : n \in 0..MaxCtx}
ExpertValues == {Undef, Str(""), Str("analysis")}
SourceValues == {Undef, Str(""), Str("f1"), Arr(<<>>), Arr(<<"f1", "f2">>)}

Response(a, s, ie, he, ic, hc) ==
    [answer |-> a, sources |-> s,
     it_expert_response |-> ie, hr_expert_response |-> he,
     it_context |-> ic, hr_context |-> hc]

\* every shape of answer data the JSON can carry
AllResponses ==
    {Response(a, s, ie, he, ic, hc) :
        a \in Answers, s \in SourceValues,
        ie \in ExpertValues, he \in ExpertValues,
        ic \in ContextValues, hc \in ContextValues}

\* no document ingested in either area
NoDocumentsResponse ==
    Response("a1", Arr(<<>>), Str("analysis"), Str("analysis"), Arr(<<>>), Arr(<<>>))
\* both experts answered, IT retrieved more than HR
DebateResponse ==
    Response("a1", Arr(<<"f1", "f2">>), Str("analysis"), Str("analysis"),
             Arr(Chunks(MaxCtx)), Arr(Chunks(1)))
\* the response shape README.md documents: no expert texts
ReadmeResponse ==
    Response("a1", Str("f1"), Undef, Undef, Arr(<<>>), Arr(Chunks(1)))
\* only the answer
BareResponse ==
    Response("a1", Undef, Undef, Undef, Undef, Undef)

ServedResponses == {NoDocumentsResponse, DebateResponse, ReadmeResponse, BareResponse}

(***************************************************************************)
(* handleQuery: policy-area attribution and the returned result            *)
(***************************************************************************)
\* a plausible slip: >= in place of >
PolicyAreaOfNonStrict(data) ==
    LET itContextLength == LengthOrZero(data.it_context)
        hrContextLength == LengthOrZero(data.hr_context)
    IN  IF itContextLength >= hrContextLength /\ itContextLength > 0 THEN "IT"
        ELSE IF hrContextLength >= itContextLength /\ hrContextLength > 0 THEN "HR"
        ELSE "General"

PolicyAreaOf(data) ==
    LET itContextLength == LengthOrZero(data.it_context)
        hrContextLength == LengthOrZero(data.hr_context)
    IN  IF itContextLength > hrContextLength /\ itContextLength > 0 THEN "IT"
        ELSE IF hrContextLength > itContextLength /\ hrContextLength > 0 THEN "HR"
        ELSE "General"

DebateFlowOf(data) ==
    [itExpertResponse |-> data.it_expert_response,
     hrExpertResponse |-> data.hr_expert_response,
     itContext |-> data.it_context,
     hrContext |-> data.hr_context]

ResultOf(question, data, policyArea) ==
    [question |-> question,
     answer |-> data.answer,
     policyArea |-> policyArea,
     sources |-> OrEmptyArray(data.sources),
     it_context |-> data.it_context,
     hr_context |-> data.hr_context]

QueryFormState(result, error) == [result |-> result, error |-> error]
initialState == QueryFormState(Null, Null)

(***************************************************************************)
(* addQueryToHistory: the document handed to addDoc                        *)
(***************************************************************************)
\* a field that is set only under a condition
Field(name, cond, value) == IF cond THEN name :> value ELSE <<>>

StoredSources(sources) ==
    IF IsArray(sources) THEN sources.a
    ELSE IF Truthy(sources) THEN <<sources.s>> ELSE <<>>

DebateFields(debateFlow) ==
    IF debateFlow = Null THEN <<>>
    ELSE LET d == debateFlow[1]
         IN  Field("itExpertResponse", Truthy(d.itExpertResponse), d.itExpertResponse.s)
             @@ Field("hrExpertResponse", Truthy(d.hrExpertResponse), d.hrExpertResponse.s)
             @@ Field("itContext", Truthy(d.itContext), d.itContext.a)
             @@ Field("hrContext", Truthy(d.hrContext), d.hrContext.a)

DocData(userId, question, answer, policyArea, sources, debateFlow, nowMs) ==
    [userId |-> userId,
     question |-> question,
     answer |-> answer,
     policyArea |-> policyArea,
     sources |-> StoredSources(sources),
     createdAt |-> FromMillis(nowMs)]
    @@ DebateFields(debateFlow)

(***************************************************************************)
(* State                                                                   *)
(***************************************************************************)
VARIABLES
    backend,      \* the answer data the backend serves for each question
    queries,      \* the Firestore collection 'queries': document id -> document
    inv,          \* the handleQuery invocation of the dashboard form
    started,      \* number of handleQuery invocations so far
    lastHistory,  \* what the last getUserQueryHistory call returned
    page,         \* the history detail page
    admin,        \* the admin panel
    index,        \* the backend's documents and embedding index
    pipeline,     \* one run of the backend's question-answering pipeline
    chunker,      \* one call of the backend's chunker
    authForm,     \* the sign-up / login server action of the auth forms
    dashboard,    \* the dashboard layout and its access guard
    sidebar       \* the history sidebar of the dashboard

vars == <<backend, queries, inv, started, lastHistory, page, admin, index, pipeline, chunker,
          authForm, dashboard, sidebar>>

\* the parts of the state outside the query form and its history
sideVars == <<page, admin, index, pipeline, chunker, authForm, dashboard, sidebar>>
\* the query form and its history
coreVars == <<backend, queries, inv, started, lastHistory>>

StageOrder == <<"validate", "request", "attribute", "write", "return">>

\* the form before its first submission
IdleInvocation ==
    [pc |-> "idle", question |-> "", userId |-> "", bypass |-> FALSE,
     data |-> Null, policyArea |-> "", doc |-> Null, docId |-> Null,
     state |-> initialState, trace |-> <<>>, failedAt |-> Null,
     requests |-> 0, writes |-> 0]

\* seen: the ids of the documents that existed when getDocs ran
NoHistory == [userId |-> "", records |-> Null, error |-> Null, seen |-> {}]

\* the detail page before it is mounted
IdlePage ==
    [pc |-> "unmounted", user |-> Null, id |-> 0, query |-> Null, loading |-> TRUE,
     pending |-> {}]

\* the admin panel as mounted: nothing selected, nothing in flight
IdleAdmin ==
    [pc |-> "unmounted",
     file |-> Null, policyArea |-> "General", uploading |-> FALSE, message |-> Null,
     documents |-> {}, loading |-> TRUE,
     uploads |-> <<>>,   \* upload requests in flight: the file each carries
     deletes |-> <<>>,   \* delete requests in flight: the document id of each
     loads |-> <<>>,     \* loadDocuments calls in flight, in the order issued
     issued |-> 0,       \* number of loadDocuments calls so far
     answered |-> 0,     \* the latest issued call among those whose response arrived
     latest |-> {},      \* the response of that call
     clicks |-> 0,       \* number of upload and delete clicks so far
     server |-> {},      \* the documents the backend lists
     stored |-> 0]       \* number of documents the backend has stored so far

\* no document ingested, no query made
EmptyIndex == [documents |-> <<>>, chunks |-> <<>>, lastQuery |-> Null]

\* the tasks of one pipeline run
Tasks == {"retrieveIT", "retrieveHR", "analyzeIT", "analyzeHR", "synthesize"}

\* no question received
IdlePipeline ==
    [stage |-> "IDLE", task |-> [t \in Tasks |-> "waiting"],
     itSources |-> <<>>, hrSources |-> <<>>, result |-> Null]

\* the chunker before a call
IdleChunker == [text |-> <<>>, maxLen |-> 1, overlap |-> 0, chunks |-> Null]

\* no auth form submitted: the forms' initial state
IdleAuthForm ==
    [pc |-> "idle", action |-> "", email |-> "", password |-> "", calls |-> 0,
     outcome |-> "", user |-> Null,
     state |-> [error |-> Null, success |-> FALSE]]

\* the dashboard layout before it is mounted
IdleDashboard ==
    [pc |-> "unmounted", user |-> Null, loading |-> TRUE, bypass |-> FALSE,
     pathname |-> "", pushed |-> Null]

\* the history sidebar before it is mounted
IdleSidebar ==
    [pc |-> "unmounted", user |-> Null, history |-> <<>>, isLoading |-> TRUE, pending |-> {}]

CoreIdle ==
    /\ backend \in [Questions -> {BareResponse}]
    /\ queries = <<>>
    /\ inv = IdleInvocation
    /\ started = 0
    /\ lastHistory = NoHistory
SideIdle ==
    /\ page = IdlePage /\ admin = IdleAdmin /\ index = EmptyIndex
    /\ pipeline = IdlePipeline /\ chunker = IdleChunker
    /\ authForm = IdleAuthForm /\ dashboard = IdleDashboard /\ sidebar = IdleSidebar

Init ==
    /\ backend \in [Questions -> ServedResponses]
    /\ queries = <<>>
    /\ inv = IdleInvocation
    /\ started = 0
    /\ lastHistory = NoHistory
    /\ SideIdle

(***************************************************************************)
(* The dashboard layout and the query form                                 *)
(***************************************************************************)
\* the auth state of a browser session and its ?bypass=true flag
Sessions == [user : {Null} \cup {Some(u) : u \in Users}, loading : BOOLEAN, bypass : BOOLEAN]

\* DashboardLayout renders its children (the query form among them)
DashboardRendered(session) ==
    ~(~session.bypass /\ (session.loading \/ session.user = Null))

\* <input type="hidden" name="userId" value={user?.uid || ''} />
FormUserId(session) == IF session.user = Null THEN "" ELSE session.user[1]

(***************************************************************************)
(* handleQuery                                                             *)
(***************************************************************************)
\* a plausible slip: the thrown message is returned as it is
CaughtAsThrown(stage, message) ==
    [inv EXCEPT !.pc = "done",
                !.failedAt = Some(stage),
                !.state = QueryFormState(Null, Some(message))]

\* the catch block: the state returned when stage `stage` threw `message`
Caught(stage, message) ==
    [inv EXCEPT !.pc = "done",
                !.failedAt = Some(stage),
                !.state = QueryFormState(Null, Some(OrString(message, "An unexpected error occurred.")))]

\* a plausible slip: the login check is left out
ValidateQuestionOnly(question, userId) ==
    IF question = "" THEN Some("Please enter a question.") ELSE Null

\* a plausible slip: the login check comes first
ValidateUserFirst(question, userId) ==
    IF userId = "" THEN Some("You must be logged in to ask a question.")
    ELSE IF question = "" THEN Some("Please enter a question.")
    ELSE Null

\* the two early returns: the error to return, or Null when the input passes
Validate(question, userId) ==
    IF question = "" THEN Some("Please enter a question.")
    ELSE IF userId = "" THEN Some("You must be logged in to ask a question.")
    ELSE Null

\* the form is submitted: validation, then the request to the backend is sent
HandleQuery(session, question) ==
    /\ inv.pc \in {"idle", "done"}
    /\ started < MaxInvocations
    /\ DashboardRendered(session)
    /\ started' = started + 1
    /\ LET userId == FormUserId(session)
           fresh == [IdleInvocation EXCEPT !.question = question, !.userId = userId,
                                           !.bypass = session.bypass,
                                           !.trace = <<"validate">>]
           invalid == Validate(question, userId)
       IN  inv' = IF invalid # Null
                  THEN [fresh EXCEPT !.pc = "done", !.failedAt = Some("validate"),
                                     !.state = QueryFormState(Null, invalid)]
                  ELSE [fresh EXCEPT !.pc = "fetch", !.requests = 1,
                                     !.trace = <<"validate", "request">>]
    /\ UNCHANGED <<sideVars, backend, queries, lastHistory>>

\* a plausible slip: a failed request is answered with a made-up result
FetchRejectedFallback(message) ==
    /\ inv.pc = "fetch"
    /\ inv' = [Caught("request", message) EXCEPT
                  !.state = QueryFormState(Some(ResultOf(inv.question, BareResponse, "General")), Null)]
    /\ UNCHANGED <<sideVars, backend, queries, started, lastHistory>>

\* fetch rejects (network error, timeout)
FetchRejected(message) ==
    /\ inv.pc = "fetch"
    /\ inv' = Caught("request", message)
    /\ UNCHANGED <<sideVars, backend, queries, started, lastHistory>>

\* the detail of a non-OK response's body; Null when the body is not JSON
ErrorDetail(body) == IF body = Null THEN "API request failed" ELSE body[1]

\* the backend answers with a non-OK status
FetchNotOk(body) ==
    /\ inv.pc = "fetch"
    /\ inv' = Caught("request", OrString(ErrorDetail(body), "Failed to get answer from API"))
    /\ UNCHANGED <<sideVars, backend, queries, started, lastHistory>>

\* a plausible slip: an unreadable answer is requested again
FetchOkBadJsonRetry ==
    /\ inv.pc = "fetch"
    /\ inv.requests <= MaxInvocations
    /\ inv' = [inv EXCEPT !.requests = @ + 1, !.trace = @ \o <<"request">>]
    /\ UNCHANGED <<sideVars, backend, queries, started, lastHistory>>

\* the backend answers OK but response.json() rejects
FetchOkBadJson ==
    /\ inv.pc = "fetch"
    /\ inv' = Caught("request", "Unexpected end of JSON input")
    /\ UNCHANGED <<sideVars, backend, queries, started, lastHistory>>

\* the backend answers OK: attribution, then addQueryToHistory up to its addDoc call
\* the body of the backend's 200 response to {question, user_id}: the user
\* id does not scope retrieval, all users share one corpus
BackendAnswer(question, userId) == backend[question]

\* a plausible slip: the contexts of the answer are kept for the first user only
FetchOkPerUser(nowMs) ==
    /\ inv.pc = "fetch"
    /\ LET answered == BackendAnswer(inv.question, inv.userId)
           data == IF inv.userId = "u1" THEN answered
                   ELSE [answered EXCEPT !.it_context = Arr(<<>>), !.hr_context = Arr(<<>>)]
           policyArea == PolicyAreaOf(data)
       IN  inv' = [inv EXCEPT !.pc = "write",
                              !.data = Some(data),
                              !.policyArea = policyArea,
                              !.doc = Some(DocData(inv.userId, inv.question, data.answer,
                                                   policyArea, OrEmptyArray(data.sources),
                                                   Some(DebateFlowOf(data)), nowMs)),
                              !.writes = @ + 1,
                              !.trace = @ \o <<"attribute", "write">>]
    /\ UNCHANGED <<sideVars, backend, queries, started, lastHistory>>

FetchOk(nowMs) ==
    /\ inv.pc = "fetch"
    /\ LET data == BackendAnswer(inv.question, inv.userId)
           policyArea == PolicyAreaOf(data)
       IN  inv' = [inv EXCEPT !.pc = "write",
                              !.data = Some(data),
                              !.policyArea = policyArea,
                              !.doc = Some(DocData(inv.userId, inv.question, data.answer,
                                                   policyArea, OrEmptyArray(data.sources),
                                                   Some(DebateFlowOf(data)), nowMs)),
                              !.writes = @ + 1,
                              !.trace = @ \o <<"attribute", "write">>]
    /\ UNCHANGED <<sideVars, backend, queries, started, lastHistory>>

\* a plausible slip: the document is written under an id that may be taken
AddDocOverwriting(id) ==
    /\ inv.pc = "write"
    /\ id \in DocIds
    /\ queries' = (id :> inv.doc[1]) @@ queries
    /\ inv' = [inv EXCEPT !.pc = "done",
                          !.docId = Some(id),
                          !.trace = @ \o <<"return">>,
                          !.state = QueryFormState(
                              Some(ResultOf(inv.question, inv.data[1], inv.policyArea)), Null)]
    /\ UNCHANGED <<sideVars, backend, started, lastHistory>>

\* addDoc resolves: the document is stored, handleQuery returns the result
AddDocResolved(id) ==
    /\ inv.pc = "write"
    /\ id \in DocIds \ DOMAIN queries
    /\ queries' = queries @@ (id :> inv.doc[1])
    /\ inv' = [inv EXCEPT !.pc = "done",
                          !.docId = Some(id),
                          !.trace = @ \o <<"return">>,
                          !.state = QueryFormState(
                              Some(ResultOf(inv.question, inv.data[1], inv.policyArea)), Null)]
    /\ UNCHANGED <<sideVars, backend, started, lastHistory>>

\* addDoc rejects: addQueryToHistory rethrows, handleQuery catches
AddDocRejected ==
    /\ inv.pc = "write"
    /\ inv' = Caught("write", "Failed to save query to history.")
    /\ UNCHANGED <<sideVars, backend, queries, started, lastHistory>>

(***************************************************************************)
(* getUserQueryHistory                                                     *)
(***************************************************************************)
\* a plausible slip: the where clause is left out
WhereAnyUser(coll, userId) == DOMAIN coll

\* where('userId', '==', userId): the ids of the matching documents
WhereUserId(coll, userId) == {id \in DOMAIN coll : coll[id].userId = userId}

\* querySnapshot.forEach visits the documents in document-id order
RECURSIVE SnapshotOrder(_)
SnapshotOrder(ids) ==
    IF ids = {} THEN <<>>
    ELSE LET first == CHOOSE id \in ids : \A other \in ids : id <= other
         IN  <<first>> \o SnapshotOrder(ids \ {first})

\* history.push({ id: doc.id, ...doc.data() })
QueryOf(coll, id) == ("id" :> id) @@ coll[id]

\* a.createdAt?.toMillis() || 0
TimeOf(q) == IF "createdAt" \in DOMAIN q THEN ToMillis(q.createdAt) ELSE 0

\* a plausible slip: the operands swapped, which sorts oldest first
CompareAscending(a, b) == TimeOf(a) - TimeOf(b)

\* the comparator handed to history.sort
Compare(a, b) == TimeOf(b) - TimeOf(a)

\* Array.prototype.sort is stable: x goes before the first element it must precede
RECURSIVE InsertSorted(_, _)
InsertSorted(sorted, x) ==
    IF sorted = <<>> THEN <<x>>
    ELSE IF Compare(Head(sorted), x) > 0 THEN <<x>> \o sorted
    ELSE <<Head(sorted)>> \o InsertSorted(Tail(sorted), x)

RECURSIVE SortHistory(_)
SortHistory(history) ==
    IF history = <<>> THEN <<>>
    ELSE InsertSorted(SortHistory(SubSeq(history, 1, Len(history) - 1)),
                      history[Len(history)])

HistoryOf(coll, userId) ==
    LET order == SnapshotOrder(WhereUserId(coll, userId))
    IN  SortHistory([k \in 1..Len(order) |-> QueryOf(coll, order[k])])

\* getDocs resolves
GetUserQueryHistory(userId) ==
    /\ lastHistory' = [userId |-> userId,
                       records |-> Some(HistoryOf(queries, userId)),
                       error |-> Null,
                       seen |-> DOMAIN queries]
    /\ UNCHANGED <<sideVars, backend, queries, inv, started>>

\* getDocs rejects
GetUserQueryHistoryFailed(userId) ==
    /\ lastHistory' = [userId |-> userId,
                       records |-> Null,
                       error |-> Some("Failed to retrieve query history."),
                       seen |-> DOMAIN queries]
    /\ UNCHANGED <<sideVars, backend, queries, inv, started>>

(***************************************************************************)
(* Specification                                                           *)
(***************************************************************************)
NetworkErrors == {"fetch failed", ""}
ErrorBodies == {Null, Some(""), Some("Backend error")}

Next ==
    \/ \E session \in Sessions, question \in Questions \cup {""} : HandleQuery(session, question)
    \/ \E message \in NetworkErrors : FetchRejected(message)
    \/ \E body \in ErrorBodies : FetchNotOk(body)
    \/ FetchOkBadJson
    \/ \E nowMs \in ClockReadings : FetchOk(nowMs)
    \/ \E id \in DocIds : AddDocResolved(id)
    \/ AddDocRejected
    \/ \E userId \in Users : GetUserQueryHistory(userId)
    \/ \E userId \in Users : GetUserQueryHistoryFailed(userId)

Spec == Init /\ [][Next]_vars

(***************************************************************************)
(* SpecData: the last submission of a session, against every shape of      *)
(* answer data.                                                            *)
(***************************************************************************)
InitData ==
    /\ backend \in [Questions -> AllResponses]
    /\ queries = <<>>
    /\ inv = IdleInvocation
    /\ started = MaxInvocations - 1
    /\ lastHistory = NoHistory
    /\ SideIdle

SpecData == InitData /\ [][Next]_vars

(***************************************************************************)
(* SpecStored: getUserQueryHistory over every stored collection, records   *)
(* without createdAt included.                                             *)
(***************************************************************************)
StoredClock == {0, 1, 999, 1000}
StoredTimestamps == {Null} \cup {Some(FromMillis(ms)) : ms \in StoredClock}

StoredDoc(userId, createdAt) ==
    [userId |-> userId, question |-> "q1", answer |-> "a1",
     policyArea |-> "General", sources |-> <<>>]
    @@ Field("createdAt", createdAt # Null, createdAt[1])

StoredDocs == {StoredDoc(u, ts) : u \in Users, ts \in StoredTimestamps}

InitStored ==
    /\ backend \in [Questions -> {BareResponse}]
    /\ \E n \in 0..MaxStored : queries \in [1..n -> StoredDocs]
    /\ inv = IdleInvocation
    /\ started = 0
    /\ lastHistory = NoHistory
    /\ SideIdle

NextStored ==
    \/ \E userId \in Users : GetUserQueryHistory(userId)
    \/ \E userId \in Users : GetUserQueryHistoryFailed(userId)

SpecStored == InitStored /\ [][NextStored]_vars

(***************************************************************************)
(* The history detail page /history/[id]                                   *)
(***************************************************************************)
\* the ids a detail page can be opened for: the stored ones and one more
DetailIds == 1..(MaxDetail + 1)

\* useAuth().user
AuthUsers == {Null} \cup {Some(u) : u \in Users}

\* loadQuery up to its await: without a user it returns at once, else a
\* getUserQueryHistory(user.uid) call is in flight
LoadQuery(p, user) ==
    IF user = Null THEN p ELSE [p EXCEPT !.pending = @ \cup {user[1]}]

\* the page is opened for document `id`; the effect runs loadQuery
MountDetail(user, id) ==
    /\ page.pc = "unmounted"
    /\ page' = LoadQuery([IdlePage EXCEPT !.pc = "mounted", !.user = user, !.id = id], user)
    /\ UNCHANGED <<coreVars, authForm, dashboard, sidebar, admin, index, pipeline, chunker>>

\* user?.uid changes (sign-in resolves, or sign-out): the effect runs again
AuthChanged(user) ==
    /\ page.pc = "mounted"
    /\ (page.user = Null) # (user = Null)
    /\ page' = LoadQuery([page EXCEPT !.user = user], user)
    /\ UNCHANGED <<coreVars, authForm, dashboard, sidebar, admin, index, pipeline, chunker>>

\* history.find((q) => q.id === params.id), then `foundQuery || null`
FindQuery(history, id) ==
    LET hits == {k \in 1..Len(history) : history[k].id = id}
    IN  IF hits = {} THEN Null
        ELSE Some(history[CHOOSE k \in hits : \A other \in hits : k <= other])

\* getUserQueryHistory resolves: setQuery, then finally setLoading(false)
LoadQueryResolved(userId) ==
    /\ page.pc = "mounted"
    /\ userId \in page.pending
    /\ page' = [page EXCEPT !.query = FindQuery(HistoryOf(queries, userId), page.id),
                            !.loading = FALSE,
                            !.pending = @ \ {userId}]
    /\ UNCHANGED <<coreVars, authForm, dashboard, sidebar, admin, index, pipeline, chunker>>

\* getUserQueryHistory rejects: the catch logs, then finally setLoading(false)
LoadQueryRejected(userId) ==
    /\ page.pc = "mounted"
    /\ userId \in page.pending
    /\ page' = [page EXCEPT !.loading = FALSE, !.pending = @ \ {userId}]
    /\ UNCHANGED <<coreVars, authForm, dashboard, sidebar, admin, index, pipeline, chunker>>

\* `query.f` is truthy for a string field
TruthyString(q, f) == f \in DOMAIN q /\ q[f] # ""
\* `query.f && query.f.length > 0` for a list field
NonEmptyList(q, f) == f \in DOMAIN q /\ Len(q[f]) > 0

\* const hasDebateFlow = !!(query.itExpertResponse || query.hrExpertResponse)
HasDebateFlow(q) == TruthyString(q, "itExpertResponse") \/ TruthyString(q, "hrExpertResponse")

\* the debate-flow fields the rendered page displays: each context list is
\* nested in the block of its own expert response
ShownDebateFields(q) ==
    IF ~HasDebateFlow(q) THEN {}
    ELSE {f \in {"itExpertResponse"} : TruthyString(q, f)}
         \cup {f \in {"itContext"} : TruthyString(q, "itExpertResponse") /\ NonEmptyList(q, f)}
         \cup {f \in {"hrExpertResponse"} : TruthyString(q, f)}
         \cup {f \in {"hrContext"} : TruthyString(q, "hrExpertResponse") /\ NonEmptyList(q, f)}

\* what the page renders
DetailView(p) ==
    IF p.loading THEN [kind |-> "skeleton", record |-> Null, debate |-> FALSE, shown |-> {}]
    ELSE IF p.query = Null
         THEN [kind |-> "not-found", record |-> Null, debate |-> FALSE, shown |-> {}]
    ELSE [kind |-> "record", record |-> p.query,
          debate |-> HasDebateFlow(p.query[1]),
          shown |-> ShownDebateFields(p.query[1])]

\* the records handleQuery stores for the answers the backend serves
ServedDocs ==
    {DocData(u, q, data.answer, PolicyAreaOf(data), OrEmptyArray(data.sources),
             Some(DebateFlowOf(data)), now) :
        u \in Users, q \in Questions, data \in ServedResponses, now \in {1000}}

InitDetail ==
    /\ backend \in [Questions -> {BareResponse}]
    /\ \E n \in 0..MaxDetail : queries \in [1..n -> ServedDocs]
    /\ inv = IdleInvocation
    /\ started = 0
    /\ lastHistory = NoHistory
    /\ SideIdle

NextDetail ==
    \/ \E user \in AuthUsers, id \in DetailIds : MountDetail(user, id)
    \/ \E user \in AuthUsers : AuthChanged(user)
    \/ \E userId \in Users : LoadQueryResolved(userId)
    \/ \E userId \in Users : LoadQueryRejected(userId)

SpecDetail == InitDetail /\ [][NextDetail]_vars

(***************************************************************************)
(* The admin panel /admin.  A file name is the sequence of its parts       *)
(* between dots: 'report.pdf' is <<"report", "pdf">>.                      *)
(***************************************************************************)
FileNames ==
    {<<"report", "pdf">>, <<"scan", "PDF">>, <<"setup", "exe">>, <<"pdf">>, <<"README">>}

\* String.prototype.toLowerCase on the parts that occur
ToLowerCase(str) == IF str = "PDF" THEN "pdf" ELSE str

\* selectedFile.name.split('.').pop()?.toLowerCase()
FileExt(name) == ToLowerCase(name[Len(name)])

supportedFormats == {"pdf", "txt", "jpg", "jpeg", "png", "bmp", "gif"}

ErrorMessage(text) == Some([type |-> "error", text |-> text])
SuccessMessage(text) == Some([type |-> "success", text |-> text])

\* loadDocuments up to its await: setLoading(true), GET /api/documents sent
LoadDocuments(a) ==
    [a EXCEPT !.loading = TRUE,
              !.issued = @ + 1,
              !.loads = Append(@, [call |-> a.issued + 1, response |-> Null])]

\* the page mounts: the effect runs loadDocuments
MountAdmin ==
    /\ admin.pc = "unmounted"
    /\ admin' = LoadDocuments([admin EXCEPT !.pc = "mounted"])
    /\ UNCHANGED <<coreVars, authForm, dashboard, sidebar, page, index, pipeline, chunker>>

\* the file input (disabled while uploading) reports a chosen file
HandleFileChange(selectedFile) ==
    /\ admin.pc = "mounted"
    /\ ~admin.uploading
    /\ LET fileExt == FileExt(selectedFile)
       IN  IF fileExt = "" \/ fileExt \notin supportedFormats
           THEN admin' = [admin EXCEPT !.message = ErrorMessage("Unsupported file format.")]
           ELSE admin' = [admin EXCEPT !.file = Some(selectedFile), !.message = Null]
    /\ UNCHANGED <<coreVars, authForm, dashboard, sidebar, page, index, pipeline, chunker>>

\* a button that stays enabled while an upload is in flight
UploadEnabledWhileUploading == admin.file # Null

\* the upload button: disabled={!file || uploading}
UploadEnabled == admin.file # Null /\ ~admin.uploading

\* the page state a after handleUpload ran up to its await
UploadStarted(a) ==
    IF a.file = Null
    THEN [a EXCEPT !.message = ErrorMessage("Please select a file")]
    ELSE [a EXCEPT !.uploading = TRUE,
                   !.message = Null,
                   !.uploads = Append(@, a.file[1])]

\* a click on the upload button: handleUpload up to its await
HandleUpload ==
    /\ admin.pc = "mounted"
    /\ UploadEnabled
    /\ admin.clicks < MaxClicks
    /\ admin' = UploadStarted([admin EXCEPT !.clicks = @ + 1])
    /\ UNCHANGED <<coreVars, authForm, dashboard, sidebar, page, index, pipeline, chunker>>

Remove(seq, k) == SubSeq(seq, 1, k - 1) \o SubSeq(seq, k + 1, Len(seq))

\* the backend stores the document and answers 200
UploadOk(k) ==
    /\ k \in DOMAIN admin.uploads
    /\ admin' = LoadDocuments(
                    [admin EXCEPT !.message = SuccessMessage("Document uploaded successfully!"),
                                  !.file = Null,
                                  !.uploading = FALSE,
                                  !.uploads = Remove(@, k),
                                  !.stored = @ + 1,
                                  !.server = @ \cup {admin.stored + 1}])
    /\ UNCHANGED <<coreVars, authForm, dashboard, sidebar, page, index, pipeline, chunker>>

\* the backend answers with an error status: data.detail || 'Upload failed'
UploadNotOk(k) ==
    /\ k \in DOMAIN admin.uploads
    /\ admin' = [admin EXCEPT !.message = ErrorMessage("Unsupported file type"),
                              !.uploading = FALSE,
                              !.uploads = Remove(@, k)]
    /\ UNCHANGED <<coreVars, authForm, dashboard, sidebar, page, index, pipeline, chunker>>

\* fetch or response.json() rejects: error.message || 'Upload failed'
UploadRejected(k) ==
    /\ k \in DOMAIN admin.uploads
    /\ admin' = [admin EXCEPT !.message = ErrorMessage("Upload failed"),
                              !.uploading = FALSE,
                              !.uploads = Remove(@, k)]
    /\ UNCHANGED <<coreVars, authForm, dashboard, sidebar, page, index, pipeline, chunker>>

\* the delete button of a listed document, confirmed
HandleDelete(documentId) ==
    /\ admin.pc = "mounted"
    /\ documentId \in admin.documents
    /\ admin.clicks < MaxClicks
    /\ admin' = [admin EXCEPT !.deletes = Append(@, documentId), !.clicks = @ + 1]
    /\ UNCHANGED <<coreVars, authForm, dashboard, sidebar, page, index, pipeline, chunker>>

\* the backend deletes the document and answers 200
DeleteOk(k) ==
    /\ k \in DOMAIN admin.deletes
    /\ admin.deletes[k] \in admin.server
    /\ admin' = LoadDocuments(
                    [admin EXCEPT !.message = SuccessMessage("Document deleted successfully"),
                                  !.deletes = Remove(@, k),
                                  !.server = @ \ {admin.deletes[k]}])
    /\ UNCHANGED <<coreVars, authForm, dashboard, sidebar, page, index, pipeline, chunker>>

\* the backend answers with an error status, or fetch rejects
DeleteFailed(k) ==
    /\ k \in DOMAIN admin.deletes
    /\ admin' = [admin EXCEPT !.message = ErrorMessage("Failed to delete document"),
                              !.deletes = Remove(@, k)]
    /\ UNCHANGED <<coreVars, authForm, dashboard, sidebar, page, index, pipeline, chunker>>

\* the backend answers a GET /api/documents with its current list
LoadServed(k) ==
    /\ k \in DOMAIN admin.loads
    /\ admin.loads[k].response = Null
    /\ admin' = [admin EXCEPT !.loads[k].response = Some(admin.server)]
    /\ UNCHANGED <<coreVars, authForm, dashboard, sidebar, page, index, pipeline, chunker>>

\* the response arrives: setDocuments, then finally setLoading(false)
LoadResolved(k) ==
    /\ k \in DOMAIN admin.loads
    /\ admin.loads[k].response # Null
    /\ LET call == admin.loads[k].call
           documents == admin.loads[k].response[1]
       IN  admin' = [admin EXCEPT
                        !.documents = documents,
                        !.loading = FALSE,
                        !.loads = Remove(@, k),
                        !.answered = IF call > @ THEN call ELSE @,
                        !.latest = IF call > admin.answered THEN documents ELSE @]
    /\ UNCHANGED <<coreVars, authForm, dashboard, sidebar, page, index, pipeline, chunker>>

\* the response is not ok, or fetch rejects: finally setLoading(false)
LoadFailed(k) ==
    /\ k \in DOMAIN admin.loads
    /\ admin.loads[k].response = Null
    /\ admin' = [admin EXCEPT !.loading = FALSE, !.loads = Remove(@, k)]
    /\ UNCHANGED <<coreVars, authForm, dashboard, sidebar, page, index, pipeline, chunker>>

InitAdmin == CoreIdle /\ SideIdle

NextAdmin ==
    \/ MountAdmin
    \/ \E selectedFile \in FileNames : HandleFileChange(selectedFile)
    \/ HandleUpload
    \/ \E k \in DOMAIN admin.uploads : UploadOk(k)
    \/ \E k \in DOMAIN admin.uploads : UploadNotOk(k)
    \/ \E k \in DOMAIN admin.uploads : UploadRejected(k)
    \/ \E documentId \in admin.documents : HandleDelete(documentId)
    \/ \E k \in DOMAIN admin.deletes : DeleteOk(k)
    \/ \E k \in DOMAIN admin.deletes : DeleteFailed(k)
    \/ \E k \in DOMAIN admin.loads : LoadServed(k)
    \/ \E k \in DOMAIN admin.loads : LoadResolved(k)
    \/ \E k \in DOMAIN admin.loads : LoadFailed(k)

SpecAdmin == InitAdmin /\ [][NextAdmin]_vars

(***************************************************************************)
(* The backend's Embedding Index: add, query, delete.  A stored chunk      *)
(* carries its metadata (document id, filename, topic area) and its        *)
(* embedding; index.chunks keeps the chunks in insertion order.            *)
(***************************************************************************)
TopicAreas == {"IT", "HR", "General"}
DocumentIds == 1..MaxDocs
\* numbers of chunks a document is cut into
ChunkCounts == {1, 2}
\* configured top-k values
TopKs == {2}
\* question embeddings
QueryEmbeddings == {<<1, 2>>}

\* the embedding of chunk n of document d
EmbeddingOf(d, n) == <<d, n>>
\* the file a document was uploaded as; two documents may carry one name
FilenameOf(d) == IF d % 2 = 1 THEN "f1" ELSE "f2"

Dot(u, v) == u[1] * v[1] + u[2] * v[2]

\* cosine similarity of q with a is greater than with b (all components are
\* positive, so the comparison is made on the squares, cross-multiplied)
MoreSimilar(q, a, b) ==
    Dot(q, a) * Dot(q, a) * Dot(b, b) > Dot(q, b) * Dot(q, b) * Dot(a, a)

\* a plausible slip: one collection for all areas
CollectionOfAll(chunks, topicArea) == chunks

\* the collection of one topic area, in insertion order
Collection(chunks, topicArea) == SelectSeq(chunks, LAMBDA c : c.area = topicArea)

\* descending by similarity, ties keep insertion order
RECURSIVE InsertRanked(_, _, _)
InsertRanked(q, ranked, c) ==
    IF ranked = <<>> THEN <<c>>
    ELSE IF MoreSimilar(q, c.embedding, Head(ranked).embedding) THEN <<c>> \o ranked
    ELSE <<Head(ranked)>> \o InsertRanked(q, Tail(ranked), c)

RECURSIVE Ranked(_, _)
Ranked(q, candidates) ==
    IF candidates = <<>> THEN <<>>
    ELSE InsertRanked(q, Ranked(q, SubSeq(candidates, 1, Len(candidates) - 1)),
                      candidates[Len(candidates)])

\* query(topicArea, queryEmbedding, k): the k most similar chunks of the area,
\* all of them when the area holds fewer than k
QueryResults(chunks, topicArea, q, k) ==
    LET ranked == Ranked(q, Collection(chunks, topicArea))
    IN  SubSeq(ranked, 1, IF Len(ranked) < k THEN Len(ranked) ELSE k)

\* the ingestion collaborator hands over a new document of `total` chunks
StartIngest(topicArea, total) ==
    /\ Len(index.documents) < MaxDocs
    /\ index' = [index EXCEPT !.documents =
                      Append(@, [area |-> topicArea, filename |-> FilenameOf(Len(@) + 1),
                                 total |-> total, added |-> 0, deleted |-> FALSE])]
    /\ UNCHANGED <<coreVars, authForm, dashboard, sidebar, page, admin, pipeline, chunker>>

\* add(topicArea, chunk, embedding, metadata) for the next chunk of document d
Add(d) ==
    /\ d \in DOMAIN index.documents
    /\ index.documents[d].added < index.documents[d].total
    /\ LET doc == index.documents[d]
       IN  index' = [index EXCEPT !.documents[d].added = @ + 1,
                                  !.chunks = Append(@, [document |-> d,
                                                        area |-> doc.area,
                                                        filename |-> doc.filename,
                                                        n |-> doc.added + 1,
                                                        embedding |-> EmbeddingOf(d, doc.added + 1)])]
    /\ UNCHANGED <<coreVars, authForm, dashboard, sidebar, page, admin, pipeline, chunker>>

\* a plausible slip: only the first chunk of the document is removed
WithoutFirstChunkOf(chunks, d) ==
    SelectSeq(chunks, LAMBDA c : ~(c.document = d /\ c.n = 1))

\* the chunks left when every chunk of document d is removed
WithoutDocument(chunks, d) == SelectSeq(chunks, LAMBDA c : c.document # d)

\* a plausible slip: delete removes one chunk per step, so queries run in between
DeleteChunkwise(d) ==
    /\ d \in DOMAIN index.documents
    /\ index.documents[d].added = index.documents[d].total
    /\ ~index.documents[d].deleted
    /\ LET mine == SelectSeq(index.chunks, LAMBDA c : c.document = d)
           rest == SelectSeq(index.chunks, LAMBDA c : ~(c.document = d /\ c.n = mine[1].n))
       IN  index' = [index EXCEPT !.documents[d].deleted = (Len(mine) = 1),
                                  !.chunks = rest]
    /\ UNCHANGED <<coreVars, authForm, dashboard, sidebar, page, admin, pipeline, chunker>>

\* delete(documentId): one atomic step; it does not interleave with the adds
\* of the same document
Delete(d) ==
    /\ d \in DOMAIN index.documents
    /\ index.documents[d].added = index.documents[d].total
    /\ ~index.documents[d].deleted
    /\ index' = [index EXCEPT !.documents[d].deleted = TRUE,
                              !.chunks = WithoutDocument(@, d)]
    /\ UNCHANGED <<coreVars, authForm, dashboard, sidebar, page, admin, pipeline, chunker>>

\* query(topicArea, queryEmbedding, k): one atomic read of the collection
Query(topicArea, q, k) ==
    /\ index' = [index EXCEPT !.lastQuery =
                      Some([area |-> topicArea, embedding |-> q, k |-> k,
                            candidates |-> Collection(index.chunks, topicArea),
                            results |-> QueryResults(index.chunks, topicArea, q, k),
                            ingested |-> {d \in DOMAIN index.documents :
                                            index.documents[d].added = index.documents[d].total},
                            deleted |-> {d \in DOMAIN index.documents :
                                            index.documents[d].deleted}])]
    /\ UNCHANGED <<coreVars, authForm, dashboard, sidebar, page, admin, pipeline, chunker>>

InitIndex == CoreIdle /\ SideIdle

NextIndex ==
    \/ \E topicArea \in TopicAreas, total \in ChunkCounts : StartIngest(topicArea, total)
    \/ \E d \in DocumentIds : Add(d)
    \/ \E d \in DocumentIds : Delete(d)
    \/ \E topicArea \in TopicAreas, q \in QueryEmbeddings, k \in TopKs : Query(topicArea, q, k)

SpecIndex == InitIndex /\ [][NextIndex]_vars

(***************************************************************************)
(* The backend's Pipeline Orchestrator: answer(question).  Two retrievals, *)
(* two expert analyses, one synthesis; a task is waiting, running, done    *)
(* or failed.                                                              *)
(***************************************************************************)
\* the source documents one retrieval can return, one filename per chunk
RetrievedSources == {<<>>, <<"f1">>, <<"f1", "f1">>, <<"f1", "f2">>, <<"f2", "f1">>}

\* a plausible slip: synthesis waits for the IT analysis only
DependenciesITOnly(t) ==
    CASE t = "analyzeIT" -> {"retrieveIT"}
      [] t = "analyzeHR" -> {"retrieveHR"}
      [] t = "synthesize" -> {"analyzeIT"}
      [] OTHER -> {}

\* the tasks whose completion a task waits for
Dependencies(t) ==
    CASE t = "analyzeIT" -> {"retrieveIT"}
      [] t = "analyzeHR" -> {"retrieveHR"}
      [] t = "synthesize" -> {"analyzeIT", "analyzeHR"}
      [] OTHER -> {}

\* the stage of the per-query state machine a task belongs to
StageOf(t) ==
    CASE t \in {"retrieveIT", "retrieveHR"} -> "RETRIEVING"
      [] t \in {"analyzeIT", "analyzeHR"} -> "ANALYZING"
      [] OTHER -> "SYNTHESIZING"

StageRank(stage) ==
    CASE stage = "RECEIVED" -> 1
      [] stage = "RETRIEVING" -> 2
      [] stage = "ANALYZING" -> 3
      [] stage = "SYNTHESIZING" -> 4
      [] OTHER -> 5

\* a plausible slip: the two lists are concatenated as they are
KeepAll(seq) == seq

\* the elements of seq in order of first occurrence, each once
RECURSIVE Dedup(_)
Dedup(seq) ==
    IF seq = <<>> THEN <<>>
    ELSE LET front == Dedup(SubSeq(seq, 1, Len(seq) - 1))
             last == seq[Len(seq)]
         IN  IF \E k \in DOMAIN front : front[k] = last THEN front ELSE Append(front, last)

\* the sources of the Pipeline Result
AssembleSources(itSources, hrSources) == Dedup(itSources \o hrSources)

\* a question arrives
Receive ==
    /\ pipeline.stage = "IDLE"
    /\ pipeline' = [pipeline EXCEPT !.stage = "RECEIVED"]
    /\ UNCHANGED <<coreVars, authForm, dashboard, sidebar, page, admin, index, chunker>>

Running == pipeline.stage \notin {"IDLE", "COMPLETE", "FAILED"}

\* a task starts once the tasks it depends on are done
Start(t) ==
    /\ Running
    /\ pipeline.task[t] = "waiting"
    /\ \A dep \in Dependencies(t) : pipeline.task[dep] = "done"
    /\ pipeline' = [pipeline EXCEPT !.task[t] = "running",
                                    !.stage = IF StageRank(StageOf(t)) > StageRank(@)
                                              THEN StageOf(t) ELSE @]
    /\ UNCHANGED <<coreVars, authForm, dashboard, sidebar, page, admin, index, chunker>>

\* a retrieval returns the source documents of its chunks
RetrievalDone(t, sources) ==
    /\ Running
    /\ t \in {"retrieveIT", "retrieveHR"}
    /\ pipeline.task[t] = "running"
    /\ pipeline' = IF t = "retrieveIT"
                   THEN [pipeline EXCEPT !.task[t] = "done", !.itSources = sources]
                   ELSE [pipeline EXCEPT !.task[t] = "done", !.hrSources = sources]
    /\ UNCHANGED <<coreVars, authForm, dashboard, sidebar, page, admin, index, chunker>>

\* an expert returns its analysis
AnalysisDone(t) ==
    /\ Running
    /\ t \in {"analyzeIT", "analyzeHR"}
    /\ pipeline.task[t] = "running"
    /\ pipeline' = [pipeline EXCEPT !.task[t] = "done"]
    /\ UNCHANGED <<coreVars, authForm, dashboard, sidebar, page, admin, index, chunker>>

\* the coordinator returns the final answer: the Pipeline Result is assembled
SynthesisDone ==
    /\ Running
    /\ pipeline.task["synthesize"] = "running"
    /\ pipeline' = [pipeline EXCEPT
                       !.task["synthesize"] = "done",
                       !.stage = "COMPLETE",
                       !.result = Some([answer |-> "a1",
                                        sources |-> AssembleSources(pipeline.itSources,
                                                                    pipeline.hrSources)])]
    /\ UNCHANGED <<coreVars, authForm, dashboard, sidebar, page, admin, index, chunker>>

\* a running task fails or times out: the run is FAILED, nothing starts after
TaskFailed(t) ==
    /\ Running
    /\ pipeline.task[t] = "running"
    /\ pipeline' = [pipeline EXCEPT !.task[t] = "failed", !.stage = "FAILED"]
    /\ UNCHANGED <<coreVars, authForm, dashboard, sidebar, page, admin, index, chunker>>

InitPipeline == CoreIdle /\ SideIdle

NextPipeline ==
    \/ Receive
    \/ \E t \in Tasks : Start(t)
    \/ \E t \in Tasks, sources \in RetrievedSources : RetrievalDone(t, sources)
    \/ \E t \in Tasks : AnalysisDone(t)
    \/ SynthesisDone
    \/ \E t \in Tasks : TaskFailed(t)

SpecPipeline == InitPipeline /\ [][NextPipeline]_vars

(***************************************************************************)
(* The backend's Chunker: chunk(text, maxLen, overlap).  A text is a       *)
(* sequence of characters; '.' ends a sentence.                            *)
(***************************************************************************)
Characters == {"a", ".", " "}

RECURSIVE TextsOfLength(_)
TextsOfLength(n) ==
    IF n = 0 THEN {<<>>}
    ELSE {Append(t, c) : t \in TextsOfLength(n - 1), c \in Characters}

Texts == UNION {TextsOfLength(n) : n \in 0..MaxText}

\* empty or whitespace-only
Degenerate(text) == \A k \in DOMAIN text : text[k] = " "

\* the sentences of a text in order: each ends with its '.', the last one at
\* the end of the text; their concatenation is the text
RECURSIVE Sentences(_)
Sentences(text) ==
    IF text = <<>> THEN <<>>
    ELSE LET ends == {k \in DOMAIN text : text[k] = "."}
             first == IF ends = {} THEN Len(text)
                      ELSE CHOOSE k \in ends : \A other \in ends : k <= other
         IN  <<SubSeq(text, 1, first)>> \o Sentences(SubSeq(text, first + 1, Len(text)))

\* the trailing `overlap` characters of a segment (all of it when shorter)
Trailing(seg, overlap) ==
    SubSeq(seg, Len(seg) - (IF overlap < Len(seg) THEN overlap ELSE Len(seg)) + 1, Len(seg))

\* a plausible slip: the hard split is made one character late
HardSplitLate(seg, maxLen) == maxLen - Len(seg) + 1

\* the number of characters that still fit in a segment
HardSplitAt(seg, maxLen) == maxLen - Len(seg)

\* the running segment `seg` takes sentence s: st.fresh counts the characters
\* of seg that no emitted chunk holds yet.  When s does not fit, the segment
\* is emitted and the next one begins with its trailing overlap; a sentence
\* that does not fit a new segment is hard-split at the limit
RECURSIVE Place(_, _, _, _)
Place(st, s, maxLen, overlap) ==
    IF s = <<>> THEN st
    ELSE IF Len(st.seg) + Len(s) <= maxLen
         THEN [st EXCEPT !.seg = @ \o s, !.fresh = @ + Len(s)]
    ELSE IF st.fresh > 0
         THEN Place([chunks |-> Append(st.chunks, st.seg),
                     seg |-> Trailing(st.seg, overlap),
                     fresh |-> 0], s, maxLen, overlap)
    ELSE LET room == HardSplitAt(st.seg, maxLen)
             full == st.seg \o SubSeq(s, 1, room)
         IN  Place([chunks |-> Append(st.chunks, full),
                    seg |-> Trailing(full, overlap),
                    fresh |-> 0], SubSeq(s, room + 1, Len(s)), maxLen, overlap)

RECURSIVE PlaceAll(_, _, _, _)
PlaceAll(st, sentences, maxLen, overlap) ==
    IF sentences = <<>> THEN st
    ELSE PlaceAll(Place(st, Head(sentences), maxLen, overlap), Tail(sentences), maxLen, overlap)

\* chunk(text, maxLen, overlap) for maxLen > overlap >= 0
Chunk(text, maxLen, overlap) ==
    IF Degenerate(text) THEN <<>>
    ELSE LET st == PlaceAll([chunks |-> <<>>, seg |-> <<>>, fresh |-> 0],
                            Sentences(text), maxLen, overlap)
         IN  IF st.fresh > 0 THEN Append(st.chunks, st.seg) ELSE st.chunks

\* the ingestion collaborator calls the chunker
RunChunk ==
    /\ chunker.chunks = Null
    /\ chunker' = [chunker EXCEPT
                      !.chunks = Some(Chunk(chunker.text, chunker.maxLen, chunker.overlap))]
    /\ UNCHANGED <<coreVars, authForm, dashboard, sidebar, page, admin, index, pipeline>>

InitChunker ==
    /\ CoreIdle
    /\ page = IdlePage /\ admin = IdleAdmin /\ index = EmptyIndex /\ pipeline = IdlePipeline
    /\ authForm = IdleAuthForm /\ dashboard = IdleDashboard /\ sidebar = IdleSidebar
    /\ \E text \in Texts, maxLen \in 1..MaxChunkLen :
           \E overlap \in 0..(maxLen - 1) :
               chunker = [text |-> text, maxLen |-> maxLen, overlap |-> overlap, chunks |-> Null]

NextChunker == RunChunk

SpecChunker == InitChunker /\ [][NextChunker]_vars

(***************************************************************************)
(* The auth server actions signUpWithEmail and loginWithEmail              *)
(***************************************************************************)
AuthActions == {"signUp", "login"}
Emails == {"", "a@x.org"}
Passwords == {"", "secret"}
\* e.message of a rejected Firebase call
AuthErrors == {"Firebase: Error (auth/invalid-credential).", ""}

AuthFormState(error, success) == [error |-> error, success |-> success]

\* the form is submitted: the early return, or the Firebase call is made
SubmitAuth(action, email, password) ==
    /\ authForm.pc \in {"idle", "done"}
    /\ LET fresh == [IdleAuthForm EXCEPT !.action = action, !.email = email,
                                         !.password = password]
       IN  authForm' =
               IF email = "" \/ password = ""
               THEN [fresh EXCEPT !.pc = "done",
                                  !.state = AuthFormState(
                                      Some("Email and password are required."), FALSE)]
               ELSE [fresh EXCEPT !.pc = "firebase", !.calls = 1]
    /\ UNCHANGED <<coreVars, page, admin, index, pipeline, chunker, dashboard, sidebar>>

\* a plausible slip: the user of the credential is not looked at
LoginStateUnchecked(user) == AuthFormState(Null, TRUE)

\* loginWithEmail after signInWithEmailAndPassword resolved
LoginState(user) ==
    IF user = Null THEN AuthFormState(Some("Login failed. Please try again."), FALSE)
    ELSE AuthFormState(Null, TRUE)

\* the Firebase call resolves with a credential
FirebaseResolved(user) ==
    /\ authForm.pc = "firebase"
    /\ authForm' = [authForm EXCEPT
                       !.pc = "done",
                       !.outcome = "resolved",
                       !.user = user,
                       !.state = IF authForm.action = "signUp"
                                 THEN AuthFormState(Null, TRUE)
                                 ELSE LoginState(user)]
    /\ UNCHANGED <<coreVars, page, admin, index, pipeline, chunker, dashboard, sidebar>>

\* the Firebase call rejects: { error: e.message, success: false }
FirebaseRejected(message) ==
    /\ authForm.pc = "firebase"
    /\ authForm' = [authForm EXCEPT !.pc = "done",
                                    !.outcome = "rejected",
                                    !.state = AuthFormState(Some(message), FALSE)]
    /\ UNCHANGED <<coreVars, page, admin, index, pipeline, chunker, dashboard, sidebar>>

(***************************************************************************)
(* DashboardLayout: the access guard                                       *)
(***************************************************************************)
Pathnames == {"/dashboard", "/dashboard/history"}

\* `/login?redirect=${pathname}`
LoginUrl(pathname) == [path |-> "/login", redirect |-> pathname]

\* the layout of signup/page.tsx: no bypass test in the effect
RedirectEffectNoBypass(d) ==
    IF ~d.loading /\ d.user = Null THEN Some(LoginUrl(d.pathname)) ELSE Null

\* the effect: the router.push it issues, Null when it issues none
RedirectEffect(d) ==
    IF d.bypass THEN Null
    ELSE IF ~d.loading /\ d.user = Null THEN Some(LoginUrl(d.pathname))
    ELSE Null

\* the layout after a render and the effect run that follows it
AfterEffect(d) == [d EXCEPT !.pushed = RedirectEffect(d)]

\* the layout is mounted at /dashboard, where the login page pushes to,
\* while the auth state is still loading
MountDashboard(bypass) ==
    /\ dashboard.pc = "unmounted"
    /\ dashboard' = AfterEffect([IdleDashboard EXCEPT !.pc = "mounted",
                                                      !.bypass = bypass,
                                                      !.pathname = "/dashboard"])
    /\ UNCHANGED <<coreVars, page, admin, index, pipeline, chunker, authForm, sidebar>>

\* useAuth() reports another user or loading flag
DashboardAuthChanged(user, loading) ==
    /\ dashboard.pc = "mounted"
    /\ <<user, loading>> # <<dashboard.user, dashboard.loading>>
    /\ dashboard' = AfterEffect([dashboard EXCEPT !.user = user, !.loading = loading])
    /\ UNCHANGED <<coreVars, page, admin, index, pipeline, chunker, authForm, sidebar>>

\* the pathname or the bypass parameter of the URL changes
DashboardNavigated(pathname, bypass) ==
    /\ dashboard.pc = "mounted"
    /\ <<pathname, bypass>> # <<dashboard.pathname, dashboard.bypass>>
    /\ dashboard' = AfterEffect([dashboard EXCEPT !.pathname = pathname, !.bypass = bypass])
    /\ UNCHANGED <<coreVars, page, admin, index, pipeline, chunker, authForm, sidebar>>

InitAuth == CoreIdle /\ SideIdle

NextAuth ==
    \/ \E action \in AuthActions, email \in Emails, password \in Passwords :
           SubmitAuth(action, email, password)
    \/ \E user \in AuthUsers : FirebaseResolved(user)
    \/ \E message \in AuthErrors : FirebaseRejected(message)
    \/ \E bypass \in BOOLEAN : MountDashboard(bypass)
    \/ \E user \in AuthUsers, loading \in BOOLEAN : DashboardAuthChanged(user, loading)
    \/ \E pathname \in Pathnames, bypass \in BOOLEAN : DashboardNavigated(pathname, bypass)

SpecAuth == InitAuth /\ [][NextAuth]_vars

(***************************************************************************)
(* HistorySidebar, and the two history views together under the fairness   *)
(* that every getUserQueryHistory call settles                             *)
(***************************************************************************)
\* the effect: with a user the transition starts, setIsLoading(true), and a
\* getUserQueryHistory(user.uid) call is in flight; without one nothing runs
LoadHistory(sb, user) ==
    IF user = Null THEN sb
    ELSE [sb EXCEPT !.isLoading = TRUE, !.pending = @ \cup {user[1]}]

\* the sidebar is mounted; the effect runs
MountSidebar(user) ==
    /\ sidebar.pc = "unmounted"
    /\ sidebar' = LoadHistory([IdleSidebar EXCEPT !.pc = "mounted", !.user = user], user)
    /\ UNCHANGED <<coreVars, page, admin, index, pipeline, chunker, authForm, dashboard>>

\* user?.uid changes (sign-in resolves, or sign-out): the effect runs again
SidebarAuthChanged(user) ==
    /\ sidebar.pc = "mounted"
    /\ (sidebar.user = Null) # (user = Null)
    /\ sidebar' = LoadHistory([sidebar EXCEPT !.user = user], user)
    /\ UNCHANGED <<coreVars, page, admin, index, pipeline, chunker, authForm, dashboard>>

\* getUserQueryHistory resolves: setHistory, setIsLoading(false)
SidebarResolved(userId) ==
    /\ sidebar.pc = "mounted"
    /\ userId \in sidebar.pending
    /\ sidebar' = [sidebar EXCEPT !.history = HistoryOf(queries, userId),
                                  !.isLoading = FALSE,
                                  !.pending = @ \ {userId}]
    /\ UNCHANGED <<coreVars, page, admin, index, pipeline, chunker, authForm, dashboard>>

\* getUserQueryHistory rejects: the transition ends with nothing after the
\* await executed
SidebarRejected(userId) ==
    /\ sidebar.pc = "mounted"
    /\ userId \in sidebar.pending
    /\ sidebar' = [sidebar EXCEPT !.pending = @ \ {userId}]
    /\ UNCHANGED <<coreVars, page, admin, index, pipeline, chunker, authForm, dashboard>>

InitViews ==
    /\ backend \in [Questions -> {BareResponse}]
    /\ \E n \in 0..1 : queries \in [1..n -> ServedDocs]
    /\ inv = IdleInvocation
    /\ started = 0
    /\ lastHistory = NoHistory
    /\ SideIdle

NextViews ==
    \/ \E user \in AuthUsers, id \in DetailIds : MountDetail(user, id)
    \/ \E user \in AuthUsers : AuthChanged(user)
    \/ \E userId \in Users : LoadQueryResolved(userId)
    \/ \E userId \in Users : LoadQueryRejected(userId)
    \/ \E user \in AuthUsers : MountSidebar(user)
    \/ \E user \in AuthUsers : SidebarAuthChanged(user)
    \/ \E userId \in Users : SidebarResolved(userId)
    \/ \E userId \in Users : SidebarRejected(userId)

\* a promise that was created settles: weak fairness of the settling steps
SpecViews ==
    /\ InitViews /\ [][NextViews]_vars
    /\ WF_vars(\E userId \in Users : LoadQueryResolved(userId) \/ LoadQueryRejected(userId))
    /\ WF_vars(\E userId \in Users : SidebarResolved(userId) \/ SidebarRejected(userId))

(***************************************************************************)
(* Claims                                                                  *)
(***************************************************************************)
Returned == inv.pc = "done"
BackendAnswered == inv.data # Null
HistoryWriteFailed == inv.failedAt = Some("write")
BackendRequestFailed == inv.failedAt = Some("request")

\* C1: when the backend has answered and the history write then fails,
\* handleQuery still returns a result that carries the backend's answer.
C1_AnswerSurvivesHistoryFailure ==
    (Returned /\ BackendAnswered /\ HistoryWriteFailed)
        => /\ inv.state.result # Null
           /\ inv.state.result[1].answer = inv.data[1].answer

\* C2: when the backend request fails (rejected fetch, non-OK response, bad
\* JSON) the invocation has attempted no history write, no document of the
\* collection is its own, and it returns result = null with an error.
C2_BackendFailureWritesNothing ==
    BackendRequestFailed
        => /\ Returned
           /\ inv.writes = 0
           /\ inv.doc = Null
           /\ inv.docId = Null
           /\ Cardinality(DOMAIN queries) < started
           /\ inv.state.result = Null
           /\ inv.state.error # Null

C2_Witness ==
    /\ BackendRequestFailed
    /\ inv.state.error = Some("Failed to get answer from API")
    /\ queries # <<>>

IsPrefix(p, q) == Len(p) <= Len(q) /\ \A k \in 1..Len(p) : p[k] = q[k]
Count(stage) == Cardinality({k \in 1..Len(inv.trace) : inv.trace[k] = stage})

\* C3: the stages of one invocation run in the order validate, request,
\* attribute, write, return, each at most once, with one request and one
\* write at most; after a failed stage nothing further runs and the
\* invocation has returned the failed outcome.
C3_StagesInOrderOnce ==
    /\ IsPrefix(inv.trace, StageOrder)
    /\ inv.requests = Count("request")
    /\ inv.writes = Count("write")
    /\ inv.requests <= 1 /\ inv.writes <= 1
    /\ inv.failedAt # Null
         => /\ Returned
            /\ inv.trace[Len(inv.trace)] = inv.failedAt[1]
            /\ inv.state.result = Null
            /\ inv.state.error # Null
    /\ (Returned /\ inv.failedAt = Null) => inv.trace = StageOrder

C3_Witness ==
    /\ started = MaxInvocations
    /\ HistoryWriteFailed
    /\ inv.trace = <<"validate", "request", "attribute", "write">>
    /\ queries # <<>>

Has(doc, field) == field \in DOMAIN doc

\* C4: in every stored record the debate-flow fields come together per
\* area: itExpertResponse iff itContext, hrExpertResponse iff hrContext.
C4_DebateFieldsTogether ==
    \A id \in DOMAIN queries :
        /\ Has(queries[id], "itExpertResponse") <=> Has(queries[id], "itContext")
        /\ Has(queries[id], "hrExpertResponse") <=> Has(queries[id], "hrContext")

\* createdAt as stored, a record without one counting as the epoch
StampOf(q) == IF Has(q, "createdAt") THEN q.createdAt ELSE [seconds |-> 0, nanoseconds |-> 0]
NotOlder(a, b) ==
    \/ StampOf(a).seconds > StampOf(b).seconds
    \/ /\ StampOf(a).seconds = StampOf(b).seconds
       /\ StampOf(a).nanoseconds >= StampOf(b).nanoseconds

\* C5: the list getUserQueryHistory returns is ordered most recent first:
\* each record's createdAt is not older than that of the record after it
\* (a record without createdAt counts as oldest).
C5_MostRecentFirst ==
    lastHistory.records # Null
        => \A k \in 1..(Len(lastHistory.records[1]) - 1) :
               NotOlder(lastHistory.records[1][k], lastHistory.records[1][k + 1])

\* three records come back reordered, one of them without createdAt, two equal
C5_Witness ==
    /\ lastHistory.records # Null
    /\ LET h == lastHistory.records[1]
       IN  /\ Len(h) = 3
           /\ h[3].id < h[1].id
           /\ ~Has(h[3], "createdAt")
           /\ Has(h[2], "createdAt")
           /\ h[1].createdAt = h[2].createdAt
           /\ h[1].createdAt.seconds = 0 /\ h[1].createdAt.nanoseconds > 0

Ids(history) == {history[k].id : k \in 1..Len(history)}

\* C6: getUserQueryHistory(u) returns exactly the records of u: every
\* document of u that existed at the read, once, as stored, and none of
\* another user.
C6_ExactlyOwnRecords ==
    lastHistory.records # Null
        => LET h == lastHistory.records[1]
           IN  /\ \A k \in 1..Len(h) :
                      /\ h[k].userId = lastHistory.userId
                      /\ h[k].id \in lastHistory.seen
                      /\ h[k] = QueryOf(queries, h[k].id)
               /\ \A id \in lastHistory.seen :
                      queries[id].userId = lastHistory.userId => id \in Ids(h)
               /\ Cardinality(Ids(h)) = Len(h)

C6_Witness ==
    /\ lastHistory.records # Null
    /\ Len(lastHistory.records[1]) = 1
    /\ Cardinality(lastHistory.seen) = 2
    /\ \E id \in lastHistory.seen : queries[id].userId # lastHistory.userId

\* handleQuery returns a result in this step
ReturnsResult == inv.pc # "done" /\ inv'.pc = "done" /\ inv'.state.result # Null

\* C7: no step modifies or removes a stored record, and the collection
\* grows by exactly one record in the step where handleQuery returns a
\* result and in no other step.
C7_RecordsImmutable ==
    [][/\ \A id \in DOMAIN queries :
              id \in DOMAIN queries' /\ queries'[id] = queries[id]
       /\ Cardinality(DOMAIN queries') =
              Cardinality(DOMAIN queries) + (IF ReturnsResult THEN 1 ELSE 0)]_vars

\* a second record has been added next to an earlier one, and history read
C7_Witness ==
    /\ Cardinality(DOMAIN queries) = 2
    /\ Returned /\ inv.state.result # Null
    /\ lastHistory.records # Null

\* C8: every stored record has a non-empty userId and a non-empty question,
\* also after a submission from a bypassed dashboard without a user.
C8_RecordsHaveUser ==
    \A id \in DOMAIN queries :
        queries[id].userId # "" /\ queries[id].question # ""

C8_Witness ==
    /\ queries # <<>>
    /\ Returned /\ inv.bypass /\ inv.userId = "" /\ inv.question # ""
    /\ inv.state.error = Some("You must be logged in to ask a question.")

ListLength(v) == IF v.t = "array" THEN Len(v.a) ELSE 0

\* C9: the attributed policy area is IT iff the IT context list is strictly
\* longer than the HR one, HR iff the HR list is strictly longer, General
\* otherwise; the stored record and the returned result carry it.
C9_PolicyAreaByLength ==
    BackendAnswered
        => LET it == ListLength(inv.data[1].it_context)
               hr == ListLength(inv.data[1].hr_context)
           IN  /\ inv.policyArea = "IT" <=> it > hr
               /\ inv.policyArea = "HR" <=> hr > it
               /\ inv.policyArea = "General" <=> it = hr
               /\ inv.doc[1].policyArea = inv.policyArea
               /\ inv.state.result # Null => inv.state.result[1].policyArea = inv.policyArea

C9_Witness ==
    /\ BackendAnswered
    /\ ListLength(inv.data[1].hr_context) = 1
    /\ ListLength(inv.data[1].it_context) = 2
    /\ inv.policyArea = "IT"
    /\ inv.state.result # Null

EmptyRetrieval ==
    /\ BackendAnswered
    /\ inv.data[1].it_context = Arr(<<>>)
    /\ inv.data[1].hr_context = Arr(<<>>)
    /\ inv.data[1].sources \in {Undef, Arr(<<>>)}

\* C10: when the backend answers with empty IT and HR context lists and
\* empty or missing sources, handleQuery returns error = null and a result
\* with the backend's answer, sources = [] and policyArea = 'General', and
\* one history record is stored for it.
C10_EmptyRetrievalIsNoError ==
    (Returned /\ EmptyRetrieval)
        => /\ inv.state.error = Null
           /\ inv.state.result # Null
           /\ inv.state.result[1].answer = inv.data[1].answer
           /\ inv.state.result[1].sources = Arr(<<>>)
           /\ inv.state.result[1].policyArea = "General"
           /\ inv.docId # Null
           /\ inv.docId[1] \in DOMAIN queries

\* what the claim says is stored for a sources value
SourcesAsList(v) ==
    CASE v.t = "array" -> v.a
      [] v.t = "string" /\ v.s # "" -> <<v.s>>
      [] OTHER -> <<>>

StoredSourcesAreList ==
    (Returned /\ inv.state.result # Null)
        => queries[inv.docId[1]].sources = SourcesAsList(inv.data[1].sources)


\* a stored record without the fields that name its user and its time
Anonymous(doc) == [f \in DOMAIN doc \ {"userId", "createdAt"} |-> doc[f]]

\* a returned result and a stored record carry the same answer, policy
\* area, sources and contexts
SameAnswer(result, doc) ==
    /\ result.answer = doc.answer
    /\ result.policyArea = doc.policyArea
    /\ SourcesAsList(result.sources) = doc.sources
    /\ IF Has(doc, "itContext") THEN result.it_context = Arr(doc.itContext)
       ELSE ~Truthy(result.it_context)
    /\ IF Has(doc, "hrContext") THEN result.hr_context = Arr(doc.hrContext)
       ELSE ~Truthy(result.hr_context)

\* C11: the user id only attributes. Over one corpus, two invocations with
\* the same question and different user ids store records that differ in
\* userId, id and createdAt only, and the result returned to one user
\* carries the answer, sources, contexts and policy area stored for the other.
C11_UserIdOnlyAttributes ==
    /\ \A a, b \in DOMAIN queries :
           queries[a].question = queries[b].question
               => Anonymous(queries[a]) = Anonymous(queries[b])
    /\ (Returned /\ inv.state.result # Null)
           => \A a \in DOMAIN queries :
                  queries[a].question = inv.question
                      => SameAnswer(inv.state.result[1], queries[a])

\* two users have asked the same question, the second has its result
C11_Witness ==
    /\ Returned
    /\ inv.state.result # Null
    /\ \E a \in DOMAIN queries :
           /\ queries[a].question = inv.question
           /\ queries[a].userId # inv.userId
           /\ Has(queries[a], "hrContext")
           /\ queries[a].hrContext # <<>>


DebateFieldNames == {"itExpertResponse", "hrExpertResponse", "itContext", "hrContext"}
\* the stored debate data of a record: its non-empty debate-flow fields
StoredDebateData(q) ==
    {f \in {"itExpertResponse", "hrExpertResponse"} : TruthyString(q, f)}
    \cup {f \in {"itContext", "hrContext"} : NonEmptyList(q, f)}

\* C12: the detail page shows no debate section for a record with none of
\* the four debate-flow fields, and for a record with any of them it shows
\* the section with every stored debate field in it.
C12_DebateGroupDisplayed ==
    DetailView(page).kind = "record"
        => LET q == page.query[1]
           IN  /\ (DOMAIN q \cap DebateFieldNames = {}) => ~DetailView(page).debate
               /\ StoredDebateData(q) # {} => DetailView(page).debate
               /\ StoredDebateData(q) \subseteq DetailView(page).shown

\* the first half of C12 alone
NoDebateFieldsNoSection ==
    DetailView(page).kind = "record"
        => ((DOMAIN page.query[1] \cap DebateFieldNames = {}) => ~DetailView(page).debate)


\* the file name has an extension (a part after a dot) that is supported
HasSupportedExtension(name) ==
    Len(name) > 1 /\ ToLowerCase(name[Len(name)]) \in supportedFormats

\* C13: every file an upload request carries, and every file that is the
\* selected file, has a lower-cased extension among the supported formats.
C13_OnlySupportedFilesSent ==
    /\ \A k \in DOMAIN admin.uploads : HasSupportedExtension(admin.uploads[k])
    /\ admin.file # Null => HasSupportedExtension(admin.file[1])

\* C13 for the file names that contain a dot
DottedFilesSupported ==
    /\ \A k \in DOMAIN admin.uploads :
           Len(admin.uploads[k]) > 1 => HasSupportedExtension(admin.uploads[k])
    /\ (admin.file # Null /\ Len(admin.file[1]) > 1) => HasSupportedExtension(admin.file[1])


Queried == index.lastQuery # Null
\* the elements of a sequence
Range(seq) == {seq[k] : k \in DOMAIN seq}

\* C15: a query returns chunks of its own topic area only: a chunk added
\* under IT is never returned by a query against HR, and so for every area.
C15_AreaIsolation ==
    Queried => \A c \in Range(index.lastQuery[1].results) : c.area = index.lastQuery[1].area

\* a query returned a chunk while a chunk of another area was stored
C15_Witness ==
    /\ Queried
    /\ index.lastQuery[1].results # <<>>
    /\ index.lastQuery[1].area = "HR"
    /\ \E k \in DOMAIN index.chunks : index.chunks[k].area = "IT"

\* C16: a query made after delete(documentId) has completed returns no chunk
\* of that document, in any area.
C16_DeletedNeverReturned ==
    Queried => \A c \in Range(index.lastQuery[1].results) :
                   c.document \notin index.lastQuery[1].deleted

\* a query made after a delete returned chunks of the deleted document's area
C16_Witness ==
    /\ Queried
    /\ index.lastQuery[1].results # <<>>
    /\ \E d \in index.lastQuery[1].deleted :
           /\ index.documents[d].area = index.lastQuery[1].area
           /\ index.documents[d].total > 1

\* the number of chunks of document d a query saw in its collection
SeenOf(d) == Len(SelectSeq(index.lastQuery[1].candidates, LAMBDA c : c.document = d))

\* C17: of a document that was completely ingested, a query sees all the
\* chunks among its candidates or none, never a part of them.
C17_DeleteAtomic ==
    Queried => \A d \in index.lastQuery[1].ingested :
                   index.documents[d].area = index.lastQuery[1].area
                       => SeenOf(d) \in {0, index.documents[d].total}

\* a query saw every chunk of a multi-chunk document that has been deleted since
C17_Witness ==
    /\ Queried
    /\ \E d \in index.lastQuery[1].ingested :
           /\ index.documents[d].total > 1
           /\ SeenOf(d) = index.documents[d].total
           /\ index.documents[d].deleted


Started(t) == pipeline.task[t] # "waiting"
Completed(t) == pipeline.task[t] = "done"

\* C14: synthesis has started only if both expert analyses have completed,
\* and an expert analysis has started only if the retrieval of its own area
\* has completed, however the two branches interleave.
C14_SynthesisAfterBothAnalyses ==
    /\ Started("synthesize") => Completed("analyzeIT") /\ Completed("analyzeHR")
    /\ Started("analyzeIT") => Completed("retrieveIT")
    /\ Started("analyzeHR") => Completed("retrieveHR")

\* the IT branch has finished its analysis while the HR branch still retrieves
C14_BranchesInterleave ==
    /\ Completed("analyzeIT")
    /\ pipeline.task["retrieveHR"] = "running"

\* synthesis is running
C14_Witness == pipeline.task["synthesize"] = "running"

\* C18: the sources of a Pipeline Result hold every source document of the
\* IT retrieval and of the HR retrieval, nothing else, and none twice.
C18_SourcesDeduplicatedUnion ==
    pipeline.result # Null
        => LET sources == pipeline.result[1].sources
           IN  /\ Range(sources) = Range(pipeline.itSources) \cup Range(pipeline.hrSources)
               /\ Cardinality(Range(sources)) = Len(sources)

\* a result was assembled from retrievals that name one document several times
C18_Witness ==
    /\ pipeline.result # Null
    /\ pipeline.itSources = <<"f1", "f1">>
    /\ pipeline.hrSources = <<"f2", "f1">>
    /\ pipeline.result[1].sources = <<"f1", "f2">>


Chunked == chunker.chunks # Null

\* the characters a chunk adds after the overlap it repeats from the chunk before
NewPart(chunks, k, overlap) ==
    IF k = 1 THEN chunks[1]
    ELSE LET repeated == IF overlap < Len(chunks[k - 1]) THEN overlap ELSE Len(chunks[k - 1])
         IN  SubSeq(chunks[k], repeated + 1, Len(chunks[k]))

RECURSIVE NewParts(_, _, _)
NewParts(chunks, k, overlap) ==
    IF k = 0 THEN <<>> ELSE NewParts(chunks, k - 1, overlap) \o NewPart(chunks, k, overlap)

\* every character of the text is in a chunk: the chunks, each without the
\* overlap it repeats, make up the text
Covers(chunks, text, overlap) == NewParts(chunks, Len(chunks), overlap) = text

WithinLimit(chunks, maxLen) == \A k \in DOMAIN chunks : Len(chunks[k]) <= maxLen

\* C19 as stated: for maxLen > overlap >= 0 every character of D is in some
\* chunk, every chunk is at most maxLen long, and an empty or whitespace-only
\* D yields the empty sequence.
C19_Original ==
    Chunked
        => /\ Covers(chunker.chunks[1], chunker.text, chunker.overlap)
           /\ WithinLimit(chunker.chunks[1], chunker.maxLen)
           /\ Degenerate(chunker.text) => chunker.chunks[1] = <<>>

\* C19 amended: an empty or whitespace-only D yields the empty sequence; for
\* every other D every character of D is in some chunk; every chunk is at
\* most maxLen long.
C19_ChunksCoverText ==
    Chunked
        => /\ ~Degenerate(chunker.text)
                  => Covers(chunker.chunks[1], chunker.text, chunker.overlap)
           /\ WithinLimit(chunker.chunks[1], chunker.maxLen)
           /\ Degenerate(chunker.text) => chunker.chunks[1] = <<>>

\* a sentence longer than maxLen was hard-split and the text came out in
\* several overlapping chunks
C19_Witness ==
    /\ Chunked
    /\ chunker.text = <<"a", "a", "a", "a", ".">>
    /\ chunker.maxLen = 3
    /\ chunker.overlap = 1
    /\ Len(chunker.chunks[1]) > 1


NoWorkDone ==
    /\ inv.state.result = Null
    /\ inv.requests = 0
    /\ inv.writes = 0
    /\ inv.doc = Null
    /\ inv.docId = Null

\* C21: an invocation with an empty question returns 'Please enter a
\* question.' (also when the user id is empty too), one with a question and an
\* empty user id returns 'You must be logged in to ask a question.'; in both
\* cases result is null, no request was sent and no record written.
C21_InvalidInputRejected ==
    /\ (inv.pc # "idle" /\ inv.question = "")
           => /\ Returned
              /\ inv.state.error = Some("Please enter a question.")
              /\ NoWorkDone
    /\ (inv.pc # "idle" /\ inv.question # "" /\ inv.userId = "")
           => /\ Returned
              /\ inv.state.error = Some("You must be logged in to ask a question.")
              /\ NoWorkDone

\* question and user id both empty: the question's message is returned
C21_Witness ==
    /\ Returned
    /\ inv.question = ""
    /\ inv.userId = ""
    /\ inv.state.error = Some("Please enter a question.")

\* C22: a returned state has exactly one of result and error: a result comes
\* with error = null, and without a result the error is a non-empty message.
C22_ResultXorError ==
    Returned
        => /\ inv.state.result # Null => inv.state.error = Null
           /\ inv.state.result = Null
                  => (inv.state.error # Null /\ inv.state.error[1] # "")

\* a request failed with an empty message and the fallback text was returned
C22_Witness ==
    /\ Returned
    /\ BackendRequestFailed
    /\ inv.state.result = Null
    /\ inv.state.error = Some("An unexpected error occurred.")

RecordAgreesButSources ==
    (Returned /\ inv.state.result # Null)
        => /\ inv.writes = 1
           /\ inv.docId # Null
           /\ inv.docId[1] \in DOMAIN queries
           /\ LET doc == queries[inv.docId[1]]
                  result == inv.state.result[1]
              IN  /\ doc.question = result.question
                  /\ doc.answer = result.answer
                  /\ doc.policyArea = result.policyArea
                  /\ doc.userId = inv.userId


AuthReturned == authForm.pc = "done"

\* C24: a returned auth state has success = true iff error = null; success
\* comes only from a Firebase call that resolved (for login, with a user);
\* an empty email or password returns 'Email and password are required.'
\* and makes no Firebase call.
C24_AuthSuccessIffNoError ==
    AuthReturned
        => /\ authForm.state.success <=> authForm.state.error = Null
           /\ authForm.state.success
                  => /\ authForm.outcome = "resolved"
                     /\ authForm.action = "login" => authForm.user # Null
           /\ (authForm.email = "" \/ authForm.password = "")
                  => /\ authForm.state.error = Some("Email and password are required.")
                     /\ authForm.calls = 0

\* a login whose Firebase call resolved without a user
C24_Witness ==
    /\ AuthReturned
    /\ authForm.action = "login"
    /\ authForm.outcome = "resolved"
    /\ authForm.user = Null
    /\ ~authForm.state.success

Mounted == dashboard.pc = "mounted"

\* C25: without bypass the dashboard content is rendered only when loading
\* is false and a user is present, and when loading is false and no user is
\* present the effect pushes /login?redirect=<pathname>; with bypass the
\* content is rendered and the effect pushes nothing, whoever the user is.
C25_DashboardGuard ==
    Mounted
        => /\ (~dashboard.bypass /\ DashboardRendered(dashboard))
                  => (~dashboard.loading /\ dashboard.user # Null)
           /\ (~dashboard.bypass /\ ~dashboard.loading /\ dashboard.user = Null)
                  => dashboard.pushed = Some(LoginUrl(dashboard.pathname))
           /\ dashboard.bypass
                  => (DashboardRendered(dashboard) /\ dashboard.pushed = Null)

\* the bypassed dashboard is shown to nobody signed in, after a redirect was made
C25_Witness ==
    /\ Mounted
    /\ dashboard.bypass
    /\ ~dashboard.loading
    /\ dashboard.user = Null
    /\ DashboardRendered(dashboard)
    /\ dashboard.pushed = Null


UploadInFlight == Len(admin.uploads) > 0

\* an upload request ends in this step
UploadEnds == Len(admin'.uploads) < Len(admin.uploads)

\* C26: uploading is true exactly while an upload request is in flight, and
\* at most one is; handleUpload without a selected file sends no request and
\* sets an error message; when the request ends uploading is false again on
\* every path, and only a successful upload clears the file and reloads the
\* list.
C26_UploadingWhileInFlight ==
    [][ /\ (admin.uploading <=> UploadInFlight)'
        /\ (Len(admin.uploads) <= 1)'
        /\ (admin.file = Null
               => /\ UploadStarted(admin).uploads = admin.uploads
                  /\ UploadStarted(admin).uploading = admin.uploading
                  /\ UploadStarted(admin).message = ErrorMessage("Please select a file"))'
        /\ UploadEnds
               => /\ ~admin'.uploading
                  /\ IF admin'.message = SuccessMessage("Document uploaded successfully!")
                     THEN admin'.file = Null /\ admin'.issued = admin.issued + 1
                     ELSE /\ admin'.file = admin.file /\ admin'.file # Null
                          /\ admin'.issued = admin.issued
                          /\ admin'.message # Null /\ admin'.message[1].type = "error"
      ]_vars

\* an upload failed: the flag is down again, the file is kept, nothing reloads
C26_Witness ==
    /\ admin.clicks > 0
    /\ ~admin.uploading
    /\ ~UploadInFlight
    /\ admin.file # Null
    /\ admin.message = ErrorMessage("Upload failed")
    /\ admin.issued = 1


\* C27: once every loadDocuments call has completed, the displayed list is
\* the response of the most recently issued call among those that were
\* answered; the response of an older call never replaces it.
C27_LatestResponseDisplayed ==
    (admin.loads = <<>> /\ admin.answered > 0) => admin.documents = admin.latest


\* C28: after the detail page is mounted its loading flag is eventually
\* false, and after the sidebar is mounted its isLoading flag is eventually
\* false, with or without a user and whether or not getUserQueryHistory fails.
C28_LoadingEventuallyEnds ==
    /\ (page.pc = "mounted") ~> (~page.loading)
    /\ (sidebar.pc = "mounted") ~> (~sidebar.isLoading)

\* with a user, the detail page's loading flag is eventually false
DetailLoadingEndsForUser ==
    (page.pc = "mounted" /\ page.user # Null) ~> (~page.loading)


\* every getUserQueryHistory call of the page has settled and a user is signed in
DetailSettled == page.pc = "mounted" /\ page.user # Null /\ page.pending = {} /\ ~page.loading

\* the requested id is the id of a stored record of the signed-in user
OwnRecordRequested ==
    \E k \in DOMAIN queries : k = page.id /\ queries[k].userId = page.user[1]

\* C29: the detail page displays a record only if its id is the requested id
\* and it belongs to the history of the user now signed in; for an id of
\* another user's record, or of no record, it shows 'Query not found'.
C29_OnlyOwnRecordDisplayed ==
    DetailSettled
        => /\ DetailView(page).kind = "record"
                  => /\ DetailView(page).record[1].id = page.id
                     /\ DetailView(page).record[1].userId = page.user[1]
           /\ ~OwnRecordRequested => DetailView(page).kind = "not-found"

\* a displayed record always has the requested id
DisplayedRecordHasRequestedId ==
    DetailView(page).kind = "record" => DetailView(page).record[1].id = page.id

====
